---- MODULE Spec2Model ----
(***************************************************************************)
(* tokio-anysocket: a transport-agnostic Listener / Stream / SocketAddr    *)
(* family over TCP and UNIX-domain sockets.                                *)
(*                                                                         *)
(* Three specifications share this module:                                 *)
(*   SpecAddr   the address codec (Debug/Display, FromStr) and the         *)
(*              ToSocketAddrs resolvers, applied to bounded inputs;        *)
(*   Spec       Listener::bind / Stream::connect: resolution followed by   *)
(*              the first-success loop over the candidates;                *)
(*   SpecSplit  a connected Stream, its owned halves and the descriptor.   *)
(*                                                                         *)
(* Texts and byte strings are sequences of one-character strings.  "NUL"   *)
(* stands for the byte 0, "xFF" for a byte that is not valid UTF-8 (it can *)
(* occur in a Path or an abstract name, never in a str) and "FFFD" for the *)
(* replacement character that a lossy display() writes in its place.       *)
(***************************************************************************)
EXTENDS Integers, Sequences, FiniteSets, TLC

VARIABLES
    abstract_ns,   \* cfg(any(target_os = "linux", target_os = "android"))
    input,         \* the value handed to format / parse / to_socket_addrs / bind / connect
    pc,            \* position of the codec / resolver pipeline
    text,          \* the text produced by formatting
    parsed,        \* the Result of parsing the text
    out,           \* the Result of resolving the input
    first,         \* the Result of the first resolution, kept when resolving again
    op,            \* "bind" or "connect"
    bpc,           \* position of bind / connect
    addrs,         \* the candidates left in the iterator returned by to_socket_addrs
    last_err,      \* last_err of bind / connect
    result,        \* what bind / connect ended with
    attempts,      \* history: the candidates handed to _bind / _connect, with the outcome
    stream,        \* the Stream value: "none", "live", "split", "dropped"
    skind,         \* transport kind of the Stream
    rd,            \* OwnedReadHalf: "none", "live", "dropped"
    wr,            \* OwnedWriteHalf: "none", "live", "dropped", "forgotten"
    strong,        \* number of owners of the shared native stream
    fd_open,       \* the descriptor is open
    closes,        \* number of times the descriptor was closed
    wr_shutdown,   \* shutdown(Write) was performed on the socket
    shutdown_on_drop, \* the native owned write half shuts down when dropped
    sent,          \* bytes written to the socket so far
    rkind,         \* variant of the OwnedReadHalf
    wkind,         \* variant of the OwnedWriteHalf
    brkind,        \* variant of the borrowed ReadHalf
    bwkind,        \* variant of the borrowed WriteHalf
    lkind,         \* variant of the Listener
    laddr,         \* the address the Listener is bound to
    arrived,       \* number of connections that reached the Listener so far
    backlog,       \* connections queued on the listening socket, oldest first
    accepting,     \* the caller's Listener::accept future: "none", "pending",
                   \* "cancelled" (dropped while pending), "pending_again"
    accepted,      \* history: what accept / poll_accept returned
    so_error,      \* pending deferred error of the listening socket
    s_err,         \* pending deferred error of the stream's socket
    took,          \* what the last take_error returned
    inbound,       \* bytes received on the stream's socket and not yet read
    peer_closed,   \* the peer closed its write direction
    wready,        \* the stream's socket has room to write
    rwait,         \* the future returned by Stream::readable: "none", "pending"
    polled         \* what the last poll_read_ready / poll_write_ready returned

addrVars  == <<abstract_ns, input, pc, text, parsed, out, first>>
bindVars  == <<op, bpc, addrs, last_err, result, attempts>>
splitVars ==
    <<stream, skind, rd, wr, strong, fd_open, closes, wr_shutdown, shutdown_on_drop, sent>>
kindVars  == <<rkind, wkind, brkind, bwkind>>
lsnVars   == <<lkind, laddr, arrived, backlog, accepting, accepted, so_error, s_err, took>>
rdyVars   == <<inbound, peer_closed, wready, rwait, polled>>
connVars  == <<kindVars, lsnVars, rdyVars>>
vars      == <<addrVars, bindVars, splitVars, connVars>>

-----------------------------------------------------------------------------
(* Bounds *)

MaxBody  == 3    \* longest body of a text, path or abstract name
MaxSlice == 4    \* longest slice handed to a resolver
MaxPort  == 1    \* ports 0 .. MaxPort (one decimal digit)
MaxSent  == 2    \* bytes written to a stream
MaxConns == 2    \* connections that reach a Listener
MaxInbound == 1  \* bytes received on a stream and not yet read

-----------------------------------------------------------------------------
(* Sequences *)

SeqsUpTo(S, n) == UNION {[1..k -> S] : k \in 0..n}

Drop(s, n) == SubSeq(s, n + 1, Len(s))

HasPrefix(s, p) == Len(s) >= Len(p) /\ SubSeq(s, 1, Len(p)) = p

Contains(s, c) == \E k \in 1..Len(s) : s[k] = c

-----------------------------------------------------------------------------
(* Address values: enum SocketAddr { Tcp(std::net::SocketAddr),            *)
(* Unix(tokio::net::unix::SocketAddr) }.  A Unix address is a pathname, an *)
(* abstract name or unnamed, as std's address() classifies it.             *)

IpChars == {"i"}

Ports == 0..MaxPort

TcpAddr(ip, port) == [kind |-> "Tcp", uk |-> "Inet", name |-> <<ip>>, port |-> port]

UnixPath(bytes) == [kind |-> "Unix", uk |-> "Path", name |-> bytes, port |-> 0]

UnixAbstract(bytes) == [kind |-> "Unix", uk |-> "Abstract", name |-> bytes, port |-> 0]

Unnamed == [kind |-> "Unix", uk |-> "Unnamed", name |-> <<>>, port |-> 0]

NoAddr == [kind |-> "None", uk |-> "None", name |-> <<>>, port |-> 0]

is_tcp(a) == a.kind = "Tcp"

is_unix(a) == a.kind = "Unix"

is_unnamed(a) == a.kind = "Unix" /\ a.uk = "Unnamed"

Ok(v) == [ok |-> TRUE, val |-> v, err |-> "none"]

OkSeq(v) == [ok |-> TRUE, val |-> v, err |-> "none"]

Err(e) == [ok |-> FALSE, val |-> NoAddr, err |-> e]

ErrSeq(e) == [ok |-> FALSE, val |-> <<>>, err |-> e]

\* std::os::unix::net::SocketAddr::from_pathname: interior NUL bytes are
\* rejected; the empty path gives an address of length zero, which
\* address() classifies as unnamed.
from_pathname(bytes) ==
    IF Contains(bytes, "NUL") THEN Err("paths must not contain interior null bytes")
    ELSE IF bytes = <<>> THEN Ok(Unnamed)
    ELSE Ok(UnixPath(bytes))

\* std::os::unix::net::SocketAddr::from_abstract_name: any bytes.
from_abstract_name(bytes) == Ok(UnixAbstract(bytes))

\* <std::net::SocketAddr as FromStr>::from_str on "<ip>:<port>".
PortOf(c) == CHOOSE p \in Ports : ToString(p) = c

tcp_parse(x) ==
    IF /\ Len(x) = 3
       /\ x[1] \in IpChars
       /\ x[2] = ":"
       /\ \E p \in Ports : ToString(p) = x[3]
    THEN Ok(TcpAddr(x[1], PortOf(x[3])))
    ELSE Err("invalid socket address syntax")

\* Path::display / OsStr::display: lossy, a byte that is not UTF-8 is
\* written as U+FFFD.
display(bytes) == [k \in 1..Len(bytes) |-> IF bytes[k] = "xFF" THEN "FFFD" ELSE bytes[k]]

\* str::as_bytes, Path::new(str): the bytes of the text.
as_bytes(s) == s

-----------------------------------------------------------------------------
(* The text codec *)

TcpScheme == <<"t", "c", "p", ":", "/", "/">>

UnixScheme == <<"u", "n", "i", "x", ":", "/", "/">>

UnnamedText ==
    <<"(", "u", "n", "n", "a", "m", "e", "d", " ", "u", "n", "i", "x", " ",
      "s", "o", "c", "k", "e", "t", ")">>

\* Faulty variant of fmt: the is_unnamed early return is missing.
fmt_no_placeholder(a, ns) ==
    IF is_tcp(a) THEN TcpScheme \o a.name \o <<":">> \o <<ToString(a.port)>>
    ELSE IF ns /\ a.uk = "Abstract" THEN UnixScheme \o <<"@">> \o display(a.name)
    ELSE UnixScheme \o display(a.name)

\* impl fmt::Debug for SocketAddr (Display delegates to it).
fmt(a, ns) ==
    IF is_tcp(a) THEN TcpScheme \o a.name \o <<":">> \o <<ToString(a.port)>>
    ELSE IF is_unnamed(a) THEN UnnamedText
    ELSE IF ns /\ a.uk = "Abstract" THEN UnixScheme \o <<"@">> \o display(a.name)
    ELSE UnixScheme \o display(a.name)

\* fn parse_unix_addr inside from_str.
parse_unix_addr(x, ns) ==
    IF ns /\ HasPrefix(x, <<"@">>) THEN from_abstract_name(as_bytes(Drop(x, 1)))
    ELSE from_pathname(as_bytes(x))

\* impl FromStr for SocketAddr.
from_str(s, ns) ==
    IF HasPrefix(s, TcpScheme) THEN tcp_parse(Drop(s, Len(TcpScheme)))
    ELSE IF HasPrefix(s, UnixScheme) THEN parse_unix_addr(Drop(s, Len(UnixScheme)), ns)
    ELSE Err("invalid scheme")

-----------------------------------------------------------------------------
(* Inputs of the resolvers.  An input is an already-typed address, a str,  *)
(* a Path or a slice of items of one of those shapes.                      *)

Item(shape, a, s) == [shape |-> shape, a |-> a, s |-> s]

AddrItem(a) == Item("addr", a, <<>>)

StrItem(s) == Item("str", NoAddr, s)

PathItem(p) == Item("path", NoAddr, p)

Single(it) == [shape |-> it.shape, a |-> it.a, s |-> it.s, items |-> <<>>]

Slice(items) == [shape |-> "slice", a |-> NoAddr, s |-> <<>>, items |-> items]

\* Path::strip_prefix compares whole components: the components of the
\* path must start with the components of the prefix "@".
RECURSIVE SkipLeadingSep(_)
SkipLeadingSep(p) == IF p # <<>> /\ Head(p) = "/" THEN SkipLeadingSep(Tail(p)) ELSE p

RECURSIVE TrimTrailingSep(_)
TrimTrailingSep(p) ==
    IF p # <<>> /\ p[Len(p)] = "/" THEN TrimTrailingSep(SubSeq(p, 1, Len(p) - 1)) ELSE p

RECURSIVE FirstComponent(_)
FirstComponent(p) ==
    IF p = <<>> \/ Head(p) = "/" THEN <<>> ELSE <<Head(p)>> \o FirstComponent(Tail(p))

path_strip_prefix(p) ==
    IF p # <<>> /\ Head(p) # "/" /\ FirstComponent(p) = <<"@">>
    THEN [some |-> TRUE, rest |-> TrimTrailingSep(SkipLeadingSep(Drop(p, 1)))]
    ELSE [some |-> FALSE, rest |-> <<>>]

\* Result<SocketAddr>.map(iter::once)
once(r) == IF r.ok THEN OkSeq(<<r.val>>) ELSE ErrSeq(r.err)

\* impl ToSocketAddrs for SocketAddr
addr_to_socket_addrs(a) == OkSeq(<<a>>)

\* impl ToSocketAddrs for str / String
str_to_socket_addrs(s, ns) == once(from_str(s, ns))

\* impl ToSocketAddrs for std::path::Path
path_to_socket_addrs(p, ns) ==
    IF ns /\ path_strip_prefix(p).some
    THEN once(from_abstract_name(path_strip_prefix(p).rest))
    ELSE once(from_pathname(p))

item_to_socket_addrs(it, ns) ==
    IF it.shape = "addr" THEN addr_to_socket_addrs(it.a)
    ELSE IF it.shape = "str" THEN str_to_socket_addrs(it.s, ns)
    ELSE path_to_socket_addrs(it.s, ns)

\* Faulty variant of extend: the new candidates are put in front.
extend_front(acc, xs) == xs \o acc

\* addrs.extend(item.to_socket_addrs()?)
extend(acc, xs) == acc \o xs

\* Faulty variant of slice_to_socket_addrs: an element that fails to
\* resolve is skipped.
RECURSIVE slice_skip_errors(_, _, _, _)
slice_skip_errors(items, k, acc, ns) ==
    IF k > Len(items) THEN OkSeq(acc)
    ELSE LET r == item_to_socket_addrs(items[k], ns)
         IN  IF ~r.ok THEN slice_skip_errors(items, k + 1, acc, ns)
             ELSE slice_skip_errors(items, k + 1, extend(acc, r.val), ns)

\* impl ToSocketAddrs for &[T]: the loop from item k on, addrs = acc.
RECURSIVE slice_to_socket_addrs(_, _, _, _)
slice_to_socket_addrs(items, k, acc, ns) ==
    IF k > Len(items) THEN OkSeq(acc)
    ELSE LET r == item_to_socket_addrs(items[k], ns)
         IN  IF ~r.ok THEN ErrSeq(r.err)
             ELSE slice_to_socket_addrs(items, k + 1, extend(acc, r.val), ns)

to_socket_addrs(in, ns) ==
    IF in.shape = "slice" THEN slice_to_socket_addrs(in.items, 1, <<>>, ns)
    ELSE item_to_socket_addrs(Item(in.shape, in.a, in.s), ns)

-----------------------------------------------------------------------------
(* Bounded inputs *)

TextAlphabet == {"i", "0", "1", ":", "@", "/", "a", "NUL"}

ByteAlphabet == {"@", "/", "a", "NUL", "xFF"}

Texts ==
    {scheme \o body : scheme \in {TcpScheme, UnixScheme, <<>>},
                      body \in SeqsUpTo(TextAlphabet, MaxBody)}

Paths == SeqsUpTo(ByteAlphabet, MaxBody)

\* The addresses a program can construct: std::net::SocketAddr::new,
\* from_pathname, from_abstract_name (where the namespace exists), and the
\* unnamed address a socket reports.
NamedAddrs(ns) ==
    {TcpAddr(ip, port) : ip \in IpChars, port \in Ports}
    \cup {from_pathname(b).val : b \in {c \in Paths : from_pathname(c).ok /\ c # <<>>}}
    \cup (IF ns THEN {from_abstract_name(b).val : b \in Paths} ELSE {})

Addrs(ns) == NamedAddrs(ns) \cup {Unnamed}

SliceAddrs == {TcpAddr("i", 0), TcpAddr("i", 1), UnixPath(<<"a">>), UnixPath(<<"@", "a">>), Unnamed}

SliceStrs ==
    {TcpScheme \o <<"i", ":", "0">>, UnixScheme \o <<"a">>, UnixScheme \o <<"@", "a">>,
     UnixScheme, <<"a">>, TcpScheme \o <<"a">>}

SlicePaths == {<<"a">>, <<"@", "a">>, <<"@", "/", "a">>, <<"NUL">>, <<>>}

Slices ==
    {Slice(s) : s \in SeqsUpTo({AddrItem(a) : a \in SliceAddrs}, MaxSlice)}
    \cup {Slice(s) : s \in SeqsUpTo({StrItem(t) : t \in SliceStrs}, MaxSlice)}
    \cup {Slice(s) : s \in SeqsUpTo({PathItem(q) : q \in SlicePaths}, MaxSlice)}

Inputs(ns) ==
    {Single(AddrItem(a)) : a \in Addrs(ns)}
    \cup {Single(StrItem(t)) : t \in Texts}
    \cup {Single(PathItem(q)) : q \in Paths}
    \cup Slices

NoResult == [ok |-> FALSE, val |-> NoAddr, err |-> "unset"]

NoResultSeq == [ok |-> FALSE, val |-> <<>>, err |-> "unset"]

-----------------------------------------------------------------------------
(* Idle values of the variables a specification does not use *)

AddrIdle ==
    /\ pc = "idle" /\ text = <<>> /\ parsed = NoResult /\ out = NoResultSeq
    /\ first = NoResultSeq

BindIdle ==
    /\ op = "none" /\ bpc = "idle" /\ addrs = <<>> /\ attempts = <<>>
    /\ last_err = [some |-> FALSE, code |-> "none", from |-> 0]
    /\ result = [tag |-> "none", kind |-> "None", addr |-> NoAddr, code |-> "none",
                 from |-> 0]

SplitIdle ==
    /\ stream = "none" /\ skind = "None" /\ rd = "none" /\ wr = "none" /\ strong = 0
    /\ fd_open = FALSE /\ closes = 0 /\ wr_shutdown = FALSE /\ shutdown_on_drop = FALSE
    /\ sent = <<>>

NoTook == [who |-> "none", val |-> "none", before |-> "none", after |-> "none"]

NoPoll == [fn |-> "none", ready |-> FALSE, r |-> FALSE, w |-> FALSE]

KindIdle == rkind = "None" /\ wkind = "None" /\ brkind = "None" /\ bwkind = "None"

ListenIdle ==
    /\ lkind = "None" /\ laddr = NoAddr /\ arrived = 0 /\ backlog = <<>>
    /\ accepting = "none"
    /\ accepted = <<>> /\ so_error = "none" /\ s_err = "none" /\ took = NoTook

ReadyIdle ==
    /\ inbound = 0 /\ peer_closed = FALSE /\ wready = FALSE /\ rwait = "none"
    /\ polled = NoPoll

ConnIdle == KindIdle /\ ListenIdle /\ ReadyIdle

-----------------------------------------------------------------------------
(* SpecAddr: the codec and the resolvers applied to bounded inputs *)

InitAddr ==
    /\ abstract_ns \in BOOLEAN
    /\ input \in Inputs(abstract_ns)
    /\ pc = "start" /\ text = <<>> /\ parsed = NoResult /\ out = NoResultSeq
    /\ first = NoResultSeq
    /\ BindIdle /\ SplitIdle /\ ConnIdle

\* a.to_string() / format!("{a}")
Format ==
    /\ pc = "start" /\ input.shape = "addr"
    /\ text' = fmt(input.a, abstract_ns)
    /\ pc' = "formatted"
    /\ UNCHANGED <<abstract_ns, input, parsed, out, first, bindVars, splitVars, connVars>>

\* text.parse::<SocketAddr>()
Parse ==
    /\ pc = "formatted"
    /\ parsed' = from_str(text, abstract_ns)
    /\ pc' = "parsed"
    /\ UNCHANGED <<abstract_ns, input, text, out, first, bindVars, splitVars, connVars>>

ResolveShape(shape) ==
    /\ pc = "start" /\ input.shape = shape
    /\ out' = to_socket_addrs(input, abstract_ns)
    /\ pc' = "resolved"
    /\ UNCHANGED <<abstract_ns, input, text, parsed, first, bindVars, splitVars, connVars>>

ResolveAddr == ResolveShape("addr")

ResolveStr == ResolveShape("str")

ResolvePath == ResolveShape("path")

ResolveSlice == ResolveShape("slice")

\* to_socket_addrs takes &self: the input can be resolved again.
ResolveAgain ==
    /\ pc = "resolved"
    /\ first' = out
    /\ out' = to_socket_addrs(input, abstract_ns)
    /\ pc' = "resolved2"
    /\ UNCHANGED <<abstract_ns, input, text, parsed, bindVars, splitVars, connVars>>

NextAddr ==
    \/ Format
    \/ Parse
    \/ ResolveAddr
    \/ ResolveStr
    \/ ResolvePath
    \/ ResolveSlice
    \/ ResolveAgain

SpecAddr == InitAddr /\ [][NextAddr]_vars

-----------------------------------------------------------------------------
(* Claims about the codec and the resolvers (SpecAddr) *)

ValidUtf8(bytes) == ~Contains(bytes, "xFF")

\* C5: for every constructible named address a whose name is valid UTF-8
\* (a TCP ip+port, a UNIX path, a UNIX abstract name), parsing the text
\* produced by formatting a yields an address equal to a; this includes
\* UNIX path addresses whose path begins with '@' on an abstract-namespace
\* platform.
C5_RoundTrip ==
    (pc = "parsed" /\ ~is_unnamed(input.a) /\ ValidUtf8(input.a.name))
        => parsed = Ok(input.a)

TextOrPath(in) ==
    \/ in.shape \in {"str", "path"}
    \/ in.shape = "slice" /\ \A k \in 1..Len(in.items) : in.items[k].shape \in {"str", "path"}

\* C6: no text accepted by parsing and no str, Path or slice of them
\* accepted by a resolver yields an Unnamed address.
C6_NoUnnamedFromInput ==
    (pc \in {"resolved", "resolved2"} /\ TextOrPath(input) /\ out.ok)
        => \A k \in 1..Len(out.val) : ~is_unnamed(out.val[k])

\* C7: on an abstract-namespace platform, a Path whose text is '@' followed
\* by a name n resolves to exactly one abstract-name address with name n,
\* the address that parsing unix://@n yields; every other Path that is a
\* valid non-empty pathname resolves to one path address with that path.
C7_PathHonorsAt ==
    (pc = "resolved" /\ input.shape = "path" /\ abstract_ns /\ ValidUtf8(input.s))
        => IF HasPrefix(input.s, <<"@">>)
           THEN /\ out = OkSeq(<<UnixAbstract(Drop(input.s, 1))>>)
                /\ out = str_to_socket_addrs(UnixScheme \o input.s, abstract_ns)
           ELSE (input.s # <<>> /\ ~Contains(input.s, "NUL"))
                    => out = OkSeq(<<UnixPath(input.s)>>)

RECURSIVE ConcatResolutions(_, _)
ConcatResolutions(items, ns) ==
    IF items = <<>> THEN <<>>
    ELSE item_to_socket_addrs(Head(items), ns).val \o ConcatResolutions(Tail(items), ns)

AllResolve(items, ns) == \A k \in 1..Len(items) : item_to_socket_addrs(items[k], ns).ok

\* C8: resolving a slice of resolvable inputs yields exactly the
\* concatenation of each element's own resolution, in slice order, and
\* resolving the same slice again yields the same sequence.
C8_SliceConcat ==
    (pc \in {"resolved", "resolved2"} /\ input.shape = "slice"
        /\ AllResolve(input.items, abstract_ns))
        => /\ out = OkSeq(ConcatResolutions(input.items, abstract_ns))
           /\ Len(out.val) = Len(input.items)
           /\ pc = "resolved2" => first = out

C8_Witness ==
    /\ pc = "resolved2" /\ input.shape = "slice" /\ Len(input.items) = 3
    /\ AllResolve(input.items, abstract_ns)
    /\ out.ok /\ Len(out.val) = 3
    /\ out.val[1] # out.val[2] /\ out.val[2] # out.val[3] /\ out.val[1] # out.val[3]

HasScheme(s) == HasPrefix(s, TcpScheme) \/ HasPrefix(s, UnixScheme)

\* C10: formatting an Unnamed address yields the fixed placeholder, parsing
\* it fails with "invalid scheme", and "invalid scheme" is the error of
\* exactly the texts that begin with neither tcp:// nor unix://.
C10_UnnamedNotParseable ==
    /\ (pc = "parsed" /\ is_unnamed(input.a))
           => /\ text = UnnamedText
              /\ ~parsed.ok /\ parsed.err = "invalid scheme"
    /\ pc = "parsed" => (parsed.err = "invalid scheme" <=> ~HasScheme(text))
    /\ (pc = "resolved" /\ input.shape = "str")
           => (out.err = "invalid scheme" <=> ~HasScheme(input.s))

C10_Witness == pc = "parsed" /\ is_unnamed(input.a) /\ parsed.err = "invalid scheme"

-----------------------------------------------------------------------------
(* Spec: Listener::bind and Stream::connect *)

ErrCodes == {"EADDRINUSE", "ECONNREFUSED"}

\* What the native bind / connect answers for a candidate.
Transport == {[tag |-> "ok", code |-> "none"]} \cup {[tag |-> "err", code |-> c] : c \in ErrCodes}

Panic == [tag |-> "panic", code |-> "assertion failed"]

NoneErr == [some |-> FALSE, code |-> "none", from |-> 0]

SomeErr(code, from) == [some |-> TRUE, code |-> code, from |-> from]

NoValue == [tag |-> "none", kind |-> "None", addr |-> NoAddr, code |-> "none", from |-> 0]

\* utils::unix_addr_to_path: an abstract name becomes NUL followed by the
\* name, a pathname is borrowed as it is; an unnamed address fails the
\* assertion.
unix_addr_to_path(x, ns) ==
    IF is_unnamed(x) THEN [panic |-> TRUE, path |-> <<>>]
    ELSE IF ns /\ x.uk = "Abstract" THEN [panic |-> FALSE, path |-> <<"NUL">> \o x.name]
    ELSE [panic |-> FALSE, path |-> x.name]

\* Faulty variant of _bind: an unnamed address is reported as an error.
_bind_unnamed_err(addr, t, ns) ==
    IF is_tcp(addr) THEN [tag |-> t.tag, code |-> t.code, path |-> <<>>]
    ELSE IF is_unnamed(addr) THEN [tag |-> "err", code |-> "EINVAL", path |-> <<>>]
    ELSE [tag |-> t.tag, code |-> t.code, path |-> unix_addr_to_path(addr, ns).path]

\* Listener::_bind, the native bind answering t.
_bind(addr, t, ns) ==
    IF is_tcp(addr) THEN [tag |-> t.tag, code |-> t.code, path |-> <<>>]
    ELSE IF is_unnamed(addr) THEN [tag |-> Panic.tag, code |-> Panic.code, path |-> <<>>]
    ELSE IF unix_addr_to_path(addr, ns).panic
         THEN [tag |-> Panic.tag, code |-> Panic.code, path |-> <<>>]
         ELSE [tag |-> t.tag, code |-> t.code, path |-> unix_addr_to_path(addr, ns).path]

\* Stream::_connect, the native connect answering t.
_connect(addr, t, ns) ==
    IF is_tcp(addr) THEN [tag |-> t.tag, code |-> t.code, path |-> <<>>]
    ELSE IF is_unnamed(addr) THEN [tag |-> Panic.tag, code |-> Panic.code, path |-> <<>>]
    ELSE IF unix_addr_to_path(addr, ns).panic
         THEN [tag |-> Panic.tag, code |-> Panic.code, path |-> <<>>]
         ELSE [tag |-> t.tag, code |-> t.code, path |-> unix_addr_to_path(addr, ns).path]

one(o, addr, t, ns) == IF o = "bind" THEN _bind(addr, t, ns) ELSE _connect(addr, t, ns)

\* Faulty variant of pop: the iterator is consumed from the back.
pop_back(it) == [item |-> it[Len(it)], rest |-> SubSeq(it, 1, Len(it) - 1)]

\* for addr in addrs: the next candidate and the iterator after it.
pop(it) == [item |-> Head(it), rest |-> Tail(it)]

\* Faulty variant of record_err: the first error is kept.
record_first_err(last, code, from) == IF last.some THEN last ELSE SomeErr(code, from)

\* Err(e) => last_err = Some(e)
record_err(last, code, from) == SomeErr(code, from)

BindInputs ==
    Slices
    \cup {Single(AddrItem(a)) : a \in SliceAddrs}
    \cup {Single(StrItem(t)) : t \in SliceStrs}
    \cup {Single(PathItem(q)) : q \in SlicePaths}

Init ==
    /\ abstract_ns \in BOOLEAN
    /\ input \in BindInputs
    /\ op \in {"bind", "connect"}
    /\ bpc = "start" /\ addrs = <<>> /\ attempts = <<>>
    /\ last_err = NoneErr /\ result = NoValue
    /\ AddrIdle /\ SplitIdle /\ ConnIdle

\* let addrs = addr.to_socket_addrs()?; let mut last_err = None;
Resolve(o) ==
    /\ op = o /\ bpc = "start"
    /\ LET r == to_socket_addrs(input, abstract_ns)
       IN  IF r.ok
           THEN /\ addrs' = r.val
                /\ bpc' = "loop"
                /\ result' = result
           ELSE /\ addrs' = addrs
                /\ bpc' = "done"
                /\ result' = [NoValue EXCEPT !.tag = "err", !.code = r.err]
    /\ last_err' = NoneErr
    /\ UNCHANGED <<op, attempts, addrVars, splitVars, connVars>>

\* One iteration of the for loop: match Self::_bind(addr).await { ... }
Attempt(o) ==
    /\ op = o /\ bpc = "loop" /\ addrs # <<>>
    /\ \E t \in Transport :
         LET addr == pop(addrs).item
             n    == Len(attempts) + 1
             r    == one(o, addr, t, abstract_ns)
         IN  /\ attempts' = Append(attempts, [addr |-> addr, path |-> r.path,
                                              tag |-> r.tag, code |-> r.code])
             /\ addrs' = pop(addrs).rest
             /\ IF r.tag = "panic"
                THEN /\ result' = [NoValue EXCEPT !.tag = "panic", !.code = r.code]
                     /\ bpc' = "done"
                     /\ last_err' = last_err
                ELSE IF r.tag = "ok"
                THEN /\ result' = [NoValue EXCEPT !.tag = "ok", !.kind = addr.kind,
                                                   !.addr = addr]
                     /\ bpc' = "done"
                     /\ last_err' = last_err
                ELSE /\ result' = result
                     /\ bpc' = "loop"
                     /\ last_err' = record_err(last_err, r.code, n)
    /\ UNCHANGED <<op, addrVars, splitVars, connVars>>

\* Err(last_err.unwrap())
Exhausted(o) ==
    /\ op = o /\ bpc = "loop" /\ addrs = <<>>
    /\ IF last_err.some
       THEN result' = [NoValue EXCEPT !.tag = "err", !.code = last_err.code,
                                      !.from = last_err.from]
       ELSE result' = [NoValue EXCEPT !.tag = "panic",
                                      !.code = "called Option::unwrap() on a None value"]
    /\ bpc' = "done"
    /\ UNCHANGED <<op, addrs, last_err, attempts, addrVars, splitVars, connVars>>

BindResolve == Resolve("bind")

BindAttempt == Attempt("bind")

BindExhausted == Exhausted("bind")

ConnectResolve == Resolve("connect")

ConnectAttempt == Attempt("connect")

ConnectExhausted == Exhausted("connect")

Next ==
    \/ BindResolve
    \/ BindAttempt
    \/ BindExhausted
    \/ ConnectResolve
    \/ ConnectAttempt
    \/ ConnectExhausted

Spec == Init /\ [][Next]_vars

-----------------------------------------------------------------------------
(* Claims about bind / connect (Spec) *)

Candidates == to_socket_addrs(input, abstract_ns).val

LastAttempt == attempts[Len(attempts)]

\* C1: the candidates are tried strictly in resolver order; the call stops
\* at the first candidate whose transport operation succeeds, the returned
\* value is built from that candidate, every earlier candidate was attempted
\* and failed, and no later candidate is attempted.
C1_FirstSuccess ==
    /\ Len(attempts) <= Len(Candidates)
    /\ \A k \in 1..Len(attempts) : attempts[k].addr = Candidates[k]
    /\ \A k \in 1..(Len(attempts) - 1) : attempts[k].tag = "err"
    /\ result.tag = "ok"
           => /\ attempts # <<>> /\ LastAttempt.tag = "ok"
              /\ result.addr = Candidates[Len(attempts)]
              /\ result.kind = Candidates[Len(attempts)].kind
    /\ (attempts # <<>> /\ LastAttempt.tag = "ok") => (bpc = "done" /\ result.tag = "ok")

C1_Witness ==
    /\ bpc = "done" /\ result.tag = "ok"
    /\ Len(attempts) = 3 /\ Len(Candidates) = 4
    /\ attempts[1].tag = "err" /\ attempts[2].tag = "err"
    /\ Candidates[3] # Candidates[1] /\ Candidates[3] # Candidates[2]
    /\ Candidates[3] # Candidates[4]
    /\ result.addr = Candidates[3]

\* C2: when every candidate fails its transport operation, the call
\* returns the error of the last candidate attempted; the errors of earlier
\* candidates are never returned.
C2_LastError ==
    /\ (bpc = "done" /\ attempts # <<>>
           /\ \A k \in 1..Len(attempts) : attempts[k].tag = "err")
           => /\ result.tag = "err"
              /\ Len(attempts) = Len(Candidates)
              /\ result.from = Len(attempts)
              /\ result.code = LastAttempt.code
    /\ (result.tag = "err" /\ attempts # <<>>)
           => /\ result.from = Len(attempts)
              /\ \A k \in 1..Len(attempts) : attempts[k].tag = "err"

C2_Witness ==
    /\ bpc = "done" /\ result.tag = "err" /\ Len(attempts) = 2
    /\ attempts[1].code # attempts[2].code
    /\ result.code = attempts[2].code /\ result.from = 2

\* C9: reaching an Unnamed candidate aborts the call: it is never a returned
\* error and never a constructed value, the earlier errors are discarded,
\* and an Unnamed candidate after a succeeding one is never reached.
C9_UnnamedAborts ==
    /\ \A k \in 1..Len(attempts) :
           is_unnamed(attempts[k].addr)
               => /\ k = Len(attempts)
                  /\ attempts[k].tag = "panic"
                  /\ bpc = "done" /\ result.tag = "panic"
                  /\ result.from = 0 /\ result.code = Panic.code
    /\ (bpc = "loop" /\ addrs # <<>> /\ is_unnamed(Head(addrs)))
           => \A k \in 1..Len(attempts) : attempts[k].tag = "err"
    /\ result.tag = "ok"
           => \A k \in 1..Len(attempts) : ~is_unnamed(attempts[k].addr)

C9_Witness ==
    /\ bpc = "done" /\ result.tag = "panic"
    /\ Len(attempts) = 2 /\ attempts[1].tag = "err" /\ is_unnamed(attempts[2].addr)

\* C14: for every resolved candidate sequence that contains no Unnamed
\* address, the empty sequence included, bind / connect end by returning a
\* constructed value or an error value; they never abort the caller.
C14_NeverAborts ==
    (bpc = "done" /\ to_socket_addrs(input, abstract_ns).ok
        /\ \A k \in 1..Len(Candidates) : ~is_unnamed(Candidates[k]))
        => result.tag \in {"ok", "err"}

InputItems == IF input.shape = "slice" THEN input.items
              ELSE <<Item(input.shape, input.a, input.s)>>

FailingItems == {k \in 1..Len(InputItems) : ~item_to_socket_addrs(InputItems[k], abstract_ns).ok}

FirstFailing == CHOOSE k \in FailingItems : \A j \in FailingItems : k <= j

\* C15: if an element of the input fails to resolve, even one placed after
\* elements that resolve, bind / connect return the error of the first
\* failing element and no bind or connect is attempted on any candidate.
C15_AllOrNothing ==
    FailingItems # {}
        => /\ attempts = <<>> /\ addrs = <<>>
           /\ bpc \in {"start", "done"}
           /\ bpc = "done"
                  => /\ result.tag = "err" /\ result.from = 0
                     /\ result.code
                            = item_to_socket_addrs(InputItems[FirstFailing], abstract_ns).err

C15_Witness ==
    /\ bpc = "done" /\ result.tag = "err" /\ attempts = <<>>
    /\ input.shape = "slice" /\ Len(input.items) = 3
    /\ FailingItems = {2, 3}
    /\ item_to_socket_addrs(input.items[2], abstract_ns).err
           # item_to_socket_addrs(input.items[3], abstract_ns).err
    /\ ~is_unnamed(item_to_socket_addrs(input.items[1], abstract_ns).val[1])

-----------------------------------------------------------------------------
(* SpecSplit: a connected Stream, Stream::into_split and the owned halves. *)
(* The native stream is shared by the two native owned halves; its         *)
(* descriptor is closed when its last owner is released.  A native owned   *)
(* write half shuts down the write direction when dropped unless it was    *)
(* forgotten or already shut down.                                         *)

Kinds == {"Tcp", "Unix"}

\* The native value held by a variant: match self { Self::Tcp(x) => ..,
\* Self::Unix(x) => .. }
native(kind) == IF kind = "Tcp" THEN "tokio::tcp" ELSE "tokio::unix"

\* Faulty variant of from_native: every native value is wrapped as Tcp.
from_native_tcp(x) == "Tcp"

\* impl From<tokio::net::TcpStream> / From<tokio::net::UnixStream>, and the
\* same pair of impls of Listener, the halves and SocketAddr.
from_native(x) == IF x = "tokio::tcp" THEN "Tcp" ELSE "Unix"

\* utils::into2
into2(p) == <<from_native(p[1]), from_native(p[2])>>

Bytes == {"a", "b"}

InitSplit ==
    /\ skind \in Kinds
    /\ stream = "live" /\ rd = "none" /\ wr = "none"
    /\ strong = 1 /\ fd_open = TRUE /\ closes = 0
    /\ wr_shutdown = FALSE /\ shutdown_on_drop = FALSE /\ sent = <<>>
    /\ abstract_ns = TRUE /\ input = Single(AddrItem(NoAddr))
    /\ AddrIdle /\ BindIdle /\ ConnIdle

\* Releasing one owner of the native stream.
Release ==
    /\ strong' = strong - 1
    /\ fd_open' = (strong - 1 > 0)
    /\ closes' = IF strong - 1 = 0 THEN closes + 1 ELSE closes

\* Stream::try_write
StreamTryWrite ==
    /\ stream = "live" /\ ~wr_shutdown /\ Len(sent) < MaxSent
    /\ \E b \in Bytes : sent' = Append(sent, b)
    /\ UNCHANGED <<stream, skind, rd, wr, strong, fd_open, closes, wr_shutdown,
                   shutdown_on_drop, addrVars, bindVars, connVars>>

\* <Stream as AsyncWrite>::poll_shutdown
StreamPollShutdown ==
    /\ stream = "live"
    /\ wr_shutdown' = TRUE
    /\ UNCHANGED <<stream, skind, rd, wr, strong, fd_open, closes, shutdown_on_drop, sent,
                   addrVars, bindVars, connVars>>

\* A Stream going out of scope.
StreamDrop ==
    /\ stream = "live" /\ rwait = "none"
    /\ stream' = "dropped"
    /\ Release
    /\ UNCHANGED <<skind, rd, wr, wr_shutdown, shutdown_on_drop, sent, addrVars, bindVars,
                   connVars>>

\* Stream::into_split
IntoSplit ==
    /\ stream = "live" /\ rwait = "none"
    /\ stream' = "split"
    /\ rd' = "live" /\ wr' = "live"
    /\ strong' = strong + 1
    /\ shutdown_on_drop' = TRUE
    /\ rkind' = into2(<<native(skind), native(skind)>>)[1]
    /\ wkind' = into2(<<native(skind), native(skind)>>)[2]
    /\ UNCHANGED <<skind, fd_open, closes, wr_shutdown, sent, brkind, bwkind, lsnVars,
                   rdyVars, addrVars, bindVars>>

\* OwnedWriteHalf::try_write
OwnedWriteHalfTryWrite ==
    /\ wr = "live" /\ ~wr_shutdown /\ Len(sent) < MaxSent
    /\ \E b \in Bytes : sent' = Append(sent, b)
    /\ UNCHANGED <<stream, skind, rd, wr, strong, fd_open, closes, wr_shutdown,
                   shutdown_on_drop, addrVars, bindVars, connVars>>

\* <OwnedWriteHalf as AsyncWrite>::poll_shutdown
OwnedWriteHalfPollShutdown ==
    /\ wr = "live"
    /\ wr_shutdown' = TRUE
    /\ shutdown_on_drop' = FALSE
    /\ UNCHANGED <<stream, skind, rd, wr, strong, fd_open, closes, sent, addrVars, bindVars,
                   connVars>>

\* An OwnedReadHalf going out of scope.
OwnedReadHalfDrop ==
    /\ rd = "live"
    /\ rd' = "dropped"
    /\ Release
    /\ UNCHANGED <<stream, skind, wr, wr_shutdown, shutdown_on_drop, sent, addrVars, bindVars,
                   connVars>>

\* Faulty variant of OwnedWriteHalfDrop: the write half closes the descriptor.
OwnedWriteHalfDropCloses ==
    /\ wr = "live"
    /\ wr' = "dropped"
    /\ wr_shutdown' = (wr_shutdown \/ shutdown_on_drop)
    /\ strong' = strong - 1
    /\ fd_open' = FALSE
    /\ closes' = closes + 1
    /\ UNCHANGED <<stream, skind, rd, shutdown_on_drop, sent, addrVars, bindVars, connVars>>

\* An OwnedWriteHalf going out of scope.
OwnedWriteHalfDrop ==
    /\ wr = "live"
    /\ wr' = "dropped"
    /\ wr_shutdown' = (wr_shutdown \/ shutdown_on_drop)
    /\ Release
    /\ UNCHANGED <<stream, skind, rd, shutdown_on_drop, sent, addrVars, bindVars, connVars>>

\* Faulty variant of forget: the half is dropped as it is.
forget_as_drop ==
    /\ wr = "live"
    /\ wr' = "forgotten"
    /\ shutdown_on_drop' = shutdown_on_drop
    /\ wr_shutdown' = (wr_shutdown \/ shutdown_on_drop)
    /\ Release
    /\ UNCHANGED <<stream, skind, rd, sent, addrVars, bindVars, connVars>>

\* OwnedWriteHalf::forget
forget ==
    /\ wr = "live"
    /\ wr' = "forgotten"
    /\ shutdown_on_drop' = FALSE
    /\ wr_shutdown' = wr_shutdown
    /\ Release
    /\ UNCHANGED <<stream, skind, rd, sent, addrVars, bindVars, connVars>>

NextSplit ==
    \/ StreamTryWrite
    \/ StreamPollShutdown
    \/ StreamDrop
    \/ IntoSplit
    \/ OwnedWriteHalfTryWrite
    \/ OwnedWriteHalfPollShutdown
    \/ OwnedReadHalfDrop
    \/ OwnedWriteHalfDrop
    \/ forget

SpecSplit == InitSplit /\ [][NextSplit]_vars

-----------------------------------------------------------------------------
(* Claims about the owned halves (SpecSplit) *)

\* C3: after into_split, for both kinds and every order of release, the
\* descriptor is open while at least one owned half is live and closed once
\* both have been released, and it is closed exactly once.
C3_SharedClose ==
    /\ closes <= 1
    /\ stream = "split"
           => /\ (rd = "live" \/ wr = "live") => (fd_open /\ closes = 0)
              /\ (rd # "live" /\ wr # "live") => (~fd_open /\ closes = 1)

C3_Witness ==
    stream = "split" /\ wr = "dropped" /\ rd = "live" /\ fd_open /\ wr_shutdown

\* C4: forget releases the write half without shutting down the write
\* direction and without closing the descriptor while the read half is
\* live; after forget the descriptor is open exactly while the read half is
\* live; releasing an un-forgotten write half shuts the write direction
\* down.
C4_Forget ==
    /\ [](wr = "forgotten" => (fd_open <=> rd = "live"))
    /\ [](wr = "dropped" => wr_shutdown)
    /\ [][(wr = "live" /\ wr' = "forgotten")
              => (wr_shutdown' = wr_shutdown /\ fd_open' = (rd = "live"))]_vars
    /\ [][(wr = "forgotten" /\ fd_open /\ ~fd_open') => (rd = "live" /\ rd' = "dropped")]_vars

C4_Witness ==
    /\ wr = "forgotten" /\ rd = "live" /\ fd_open /\ ~wr_shutdown
    /\ sent # <<>> /\ closes = 0

-----------------------------------------------------------------------------
(* SpecConn: a bound Listener, the Streams it accepts, their deferred      *)
(* errors, readable() and the two ways of splitting.  The native listener  *)
(* takes a connection off its queue only when accept completes; a pending  *)
(* accept or readable future holds nothing but a registration for wake-up. *)
(* The Listener is never dropped here, so its descriptor is open           *)
(* throughout.  The caller holds one accepted Stream at a time.            *)

ListenAddrs == {TcpAddr("i", 0), UnixPath(<<"a">>)}

\* The peer addresses the native accept can report.
Peers(x) == IF x = "tokio::tcp" THEN {TcpAddr("i", 1)} ELSE {Unnamed, UnixPath(<<"a">>)}

InitConn ==
    /\ laddr \in ListenAddrs
    /\ lkind = from_native(native(laddr.kind))
    /\ arrived = 0 /\ backlog = <<>> /\ accepting = "none" /\ accepted = <<>>
    /\ so_error = "none" /\ s_err = "none" /\ took = NoTook
    /\ abstract_ns = TRUE /\ input = Single(AddrItem(NoAddr))
    /\ AddrIdle /\ BindIdle /\ SplitIdle /\ KindIdle /\ ReadyIdle

\* A peer connects: the connection is queued on the listening socket.
ConnArrive ==
    /\ lkind # "None" /\ arrived < MaxConns
    /\ \E peer \in Peers(native(lkind)) :
         backlog' = Append(backlog, [id |-> arrived + 1, nk |-> native(lkind), peer |-> peer])
    /\ arrived' = arrived + 1
    /\ UNCHANGED <<lkind, laddr, accepting, accepted, so_error, s_err, took, kindVars,
                   rdyVars, addrVars, bindVars, splitVars>>

\* The kernel records a deferred error on the listening socket.
ListenerSockError ==
    /\ lkind # "None" /\ so_error = "none"
    /\ \E c \in ErrCodes : so_error' = c
    /\ UNCHANGED <<lkind, laddr, arrived, backlog, accepting, accepted, s_err, took,
                   kindVars, rdyVars, addrVars, bindVars, splitVars>>

\* The kernel records a deferred error on the stream's socket.
StreamSockError ==
    /\ fd_open /\ s_err = "none"
    /\ \E c \in ErrCodes : s_err' = c
    /\ UNCHANGED <<lkind, laddr, arrived, backlog, accepting, accepted, so_error, took,
                   kindVars, rdyVars, addrVars, bindVars, splitVars>>

\* The caller holds no Stream or half any more.
CanHold ==
    \/ stream \in {"none", "dropped"}
    \/ stream = "split" /\ rd # "live" /\ wr # "live"

\* The (Stream, SocketAddr) pair made of the oldest queued connection:
\* x.accept().await.map(into2)
TakeConnection(again) ==
    LET c == Head(backlog)
        p == into2(<<c.nk, c.nk>>)
    IN  /\ backlog' = Tail(backlog)
        /\ accepted' = Append(accepted, [id |-> c.id, skind |-> p[1], pkind |-> p[2],
                                         peer |-> c.peer, after_cancel |-> again])
        /\ stream' = "live" /\ skind' = p[1]
        /\ rd' = "none" /\ wr' = "none" /\ strong' = 1 /\ fd_open' = TRUE /\ closes' = 0
        /\ wr_shutdown' = FALSE /\ shutdown_on_drop' = FALSE /\ sent' = <<>>
        /\ rkind' = "None" /\ wkind' = "None" /\ brkind' = "None" /\ bwkind' = "None"
        /\ s_err' = "none" /\ inbound' = 0 /\ rwait' = "none"
        /\ UNCHANGED <<lkind, laddr, arrived, so_error, took, peer_closed, wready, polled,
                       addrVars, bindVars>>

\* Listener::accept is called: the future waits.
AcceptStart ==
    /\ lkind # "None" /\ accepting \in {"none", "cancelled"} /\ CanHold
    /\ accepting' = IF accepting = "cancelled" THEN "pending_again" ELSE "pending"
    /\ UNCHANGED <<lkind, laddr, arrived, backlog, accepted, so_error, s_err, took,
                   kindVars, rdyVars, addrVars, bindVars, splitVars>>

\* Listener::accept completes.
AcceptComplete ==
    /\ accepting \in {"pending", "pending_again"} /\ backlog # <<>>
    /\ accepting' = "none"
    /\ TakeConnection(accepting = "pending_again")

\* Faulty variant of AcceptCancel: the dropped future takes the oldest
\* queued connection with it.
AcceptCancelLoses ==
    /\ accepting \in {"pending", "pending_again"}
    /\ accepting' = "cancelled"
    /\ backlog' = IF backlog = <<>> THEN backlog ELSE Tail(backlog)
    /\ UNCHANGED <<lkind, laddr, arrived, accepted, so_error, s_err, took,
                   kindVars, rdyVars, addrVars, bindVars, splitVars>>

\* The pending Listener::accept future is dropped.
AcceptCancel ==
    /\ accepting \in {"pending", "pending_again"}
    /\ accepting' = "cancelled"
    /\ UNCHANGED <<lkind, laddr, arrived, backlog, accepted, so_error, s_err, took,
                   kindVars, rdyVars, addrVars, bindVars, splitVars>>

\* Listener::poll_accept returning Ready (with nothing queued it returns
\* Pending and changes nothing).
PollAccept ==
    /\ lkind # "None" /\ accepting \in {"none", "cancelled"} /\ CanHold /\ backlog # <<>>
    /\ accepting' = "none"
    /\ TakeConnection(accepting = "cancelled")

\* The native take_error: getsockopt(SO_ERROR) returns the pending error
\* and clears it.
native_take_error(pending) == [val |-> pending, left |-> "none"]

\* Faulty variant of listener_take_error: the Tcp arm asks the socket too.
listener_take_error_native(kind, pending) == native_take_error(pending)

\* Listener::take_error
listener_take_error(kind, pending) ==
    IF kind = "Tcp" THEN [val |-> "none", left |-> pending]
    ELSE native_take_error(pending)

\* Stream::take_error
stream_take_error(kind, pending) ==
    IF kind = "Tcp" THEN native_take_error(pending)
    ELSE native_take_error(pending)

ListenerTakeError ==
    /\ lkind # "None"
    /\ LET r == listener_take_error(lkind, so_error)
       IN  /\ took' = [who |-> "listener", val |-> r.val, before |-> so_error,
                       after |-> r.left]
           /\ so_error' = r.left
    /\ UNCHANGED <<lkind, laddr, arrived, backlog, accepting, accepted, s_err,
                   kindVars, rdyVars, addrVars, bindVars, splitVars>>

StreamTakeError ==
    /\ stream = "live"
    /\ LET r == stream_take_error(skind, s_err)
       IN  /\ took' = [who |-> "stream", val |-> r.val, before |-> s_err, after |-> r.left]
           /\ s_err' = r.left
    /\ UNCHANGED <<lkind, laddr, arrived, backlog, accepting, accepted, so_error,
                   kindVars, rdyVars, addrVars, bindVars, splitVars>>

\* The peer writes a byte.
PeerSends ==
    /\ fd_open /\ ~peer_closed /\ inbound < MaxInbound
    /\ inbound' = inbound + 1
    /\ UNCHANGED <<peer_closed, wready, rwait, polled, kindVars, lsnVars, addrVars,
                   bindVars, splitVars>>

\* What the native socket reports: read readiness is data or EOF to read.
read_ready == inbound > 0 \/ peer_closed

write_ready == wready

\* Stream::try_read
StreamTryRead ==
    /\ stream = "live" /\ inbound > 0
    /\ inbound' = inbound - 1
    /\ UNCHANGED <<peer_closed, wready, rwait, polled, kindVars, lsnVars, addrVars,
                   bindVars, splitVars>>

\* Stream::readable is called: the future waits.
ReadableStart ==
    /\ stream = "live" /\ rwait = "none"
    /\ rwait' = "pending"
    /\ UNCHANGED <<inbound, peer_closed, wready, polled, kindVars, lsnVars, addrVars,
                   bindVars, splitVars>>

\* Stream::readable completes: both arms wait for the native readable().
ReadableComplete ==
    /\ stream = "live" /\ rwait = "pending" /\ read_ready
    /\ rwait' = "none"
    /\ UNCHANGED <<inbound, peer_closed, wready, polled, kindVars, lsnVars, addrVars,
                   bindVars, splitVars>>

\* The pending Stream::readable future is dropped.
ReadableCancel ==
    /\ rwait = "pending"
    /\ rwait' = "none"
    /\ UNCHANGED <<inbound, peer_closed, wready, polled, kindVars, lsnVars, addrVars,
                   bindVars, splitVars>>

\* Stream::split: the borrowed halves exist while the Stream is borrowed.
Split ==
    /\ stream = "live" /\ rwait = "none"
    /\ stream' = "borrowed"
    /\ brkind' = into2(<<native(skind), native(skind)>>)[1]
    /\ bwkind' = into2(<<native(skind), native(skind)>>)[2]
    /\ UNCHANGED <<skind, rd, wr, strong, fd_open, closes, wr_shutdown, shutdown_on_drop,
                   sent, rkind, wkind, lsnVars, rdyVars, addrVars, bindVars>>

\* The borrowed halves go out of scope.
SplitEnd ==
    /\ stream = "borrowed"
    /\ stream' = "live"
    /\ brkind' = "None" /\ bwkind' = "None"
    /\ UNCHANGED <<skind, rd, wr, strong, fd_open, closes, wr_shutdown, shutdown_on_drop,
                   sent, rkind, wkind, lsnVars, rdyVars, addrVars, bindVars>>

NextConn ==
    \/ ConnArrive
    \/ ListenerSockError
    \/ StreamSockError
    \/ AcceptStart
    \/ AcceptComplete
    \/ AcceptCancel
    \/ PollAccept
    \/ ListenerTakeError
    \/ StreamTakeError
    \/ PeerSends
    \/ StreamTryRead
    \/ ReadableStart
    \/ ReadableComplete
    \/ ReadableCancel
    \/ Split
    \/ SplitEnd
    \/ StreamDrop
    \/ IntoSplit
    \/ OwnedReadHalfDrop
    \/ OwnedWriteHalfDrop
    \/ forget

SpecConn == InitConn /\ [][NextConn]_vars

Ids(q) == [k \in 1..Len(q) |-> q[k].id]

\* Connections leave the queue in arrival order, each exactly once.
InOrder ==
    /\ Ids(accepted) = [k \in 1..Len(accepted) |-> k]
    /\ Ids(backlog) = [k \in 1..Len(backlog) |-> Len(accepted) + k]
    /\ Len(accepted) + Len(backlog) = arrived

\* C11: dropping a pending Listener::accept or Stream::readable future has
\* no side effects: the step that drops it changes neither the queue of
\* incoming connections nor any socket's state, no connection is ever lost
\* or taken out of order, and so the next accept returns the connection
\* the dropped future would have returned.
C11_CancelHarmless ==
    /\ []InOrder
    /\ [][(accepting \in {"pending", "pending_again"} /\ accepting' = "cancelled")
              => /\ backlog' = backlog /\ accepted' = accepted /\ arrived' = arrived
                 /\ so_error' = so_error /\ s_err' = s_err
                 /\ lkind' = lkind /\ laddr' = laddr
                 /\ splitVars' = splitVars /\ rdyVars' = rdyVars]_vars
    /\ [][(rwait = "pending" /\ rwait' = "none")
              => /\ inbound' = inbound /\ peer_closed' = peer_closed
                 /\ s_err' = s_err /\ splitVars' = splitVars
                 /\ lsnVars' = lsnVars]_vars

\* An accept future was dropped while the first connection was due, and a
\* later accept returned that first connection.
C11_Witness ==
    /\ accepted # <<>>
    /\ accepted[1].after_cancel /\ accepted[1].id = 1
    /\ backlog # <<>>

\* C12: Listener::take_error on a Tcp listener returns Ok(None) whatever
\* is pending and leaves the pending error alone; on a Unix listener it
\* returns the pending error and clears it, so a take_error right after
\* it returns none.  Stream::take_error returns and clears the pending
\* error for both kinds.
C12_TakeError ==
    /\ (took.who = "listener" /\ lkind = "Tcp")
           => (took.val = "none" /\ took.after = took.before)
    /\ (took.who = "listener" /\ lkind = "Unix")
           => (took.val = took.before /\ took.after = "none"
               /\ listener_take_error(lkind, took.after).val = "none")
    /\ took.who = "stream" => (took.val = took.before /\ took.after = "none")

\* A Tcp listener with a deferred error pending answered none and kept it.
C12_Witness ==
    /\ took.who = "listener" /\ lkind = "Tcp"
    /\ took.before # "none" /\ so_error = took.before

\* A Unix listener handed out its deferred error.
C12_WitnessUnix ==
    /\ took.who = "listener" /\ lkind = "Unix"
    /\ took.val # "none" /\ so_error = "none"

\* Every value derived from the Listener has the Listener's kind.
KindsAgree ==
    /\ lkind \in Kinds /\ lkind = laddr.kind
    /\ \A k \in 1..Len(accepted) :
         accepted[k].skind = lkind /\ accepted[k].pkind = lkind
    /\ stream \in {"live", "borrowed", "split"} => skind = lkind
    /\ stream = "borrowed" => (brkind = skind /\ bwkind = skind)
    /\ stream = "split" => (rkind = skind /\ wkind = skind)

\* C16: the transport kind is fixed at construction and kept by every
\* derivation: a Listener bound to a Tcp (Unix) address is Tcp (Unix) and
\* stays so, every Stream and peer address accept returns has the
\* Listener's kind, and both halves of split and of into_split have the
\* kind of the Stream they came from, for as long as they exist.
C16_KindPreserved ==
    /\ []KindsAgree
    /\ [][lkind' = lkind]_vars
    /\ [][(stream # "none" /\ stream' # "none" /\ accepted' = accepted)
              => skind' = skind]_vars
    /\ [][(stream = "split" /\ stream' = "split") => (rkind' = rkind /\ wkind' = wkind)]_vars

\* A Unix Listener's accepted Stream was split into owned halves and one
\* of them has been dropped since.
C16_Witness ==
    /\ lkind = "Unix" /\ accepted # <<>>
    /\ stream = "split" /\ rd = "dropped" /\ wr = "live"
    /\ rkind = "Unix" /\ wkind = "Unix"

-----------------------------------------------------------------------------
(* SpecReady: one connected Stream and the readiness of its socket.  The   *)
(* peer sends and closes, the send buffer fills and drains, and the caller *)
(* polls for readiness, waits with readable() and reads.                   *)

InitReady ==
    /\ skind \in Kinds
    /\ stream = "live" /\ rd = "none" /\ wr = "none"
    /\ strong = 1 /\ fd_open = TRUE /\ closes = 0
    /\ wr_shutdown = FALSE /\ shutdown_on_drop = FALSE /\ sent = <<>>
    /\ abstract_ns = TRUE /\ input = Single(AddrItem(NoAddr))
    /\ AddrIdle /\ BindIdle /\ KindIdle /\ ListenIdle
    /\ inbound = 0 /\ peer_closed = FALSE /\ wready \in BOOLEAN
    /\ rwait = "none" /\ polled = NoPoll

\* The peer closes its end: the reader will see EOF.
PeerCloses ==
    /\ fd_open /\ ~peer_closed
    /\ peer_closed' = TRUE
    /\ UNCHANGED <<inbound, wready, rwait, polled, kindVars, lsnVars, addrVars,
                   bindVars, splitVars>>

\* The socket's send buffer fills up.
SendBufferFills ==
    /\ fd_open /\ wready
    /\ wready' = FALSE
    /\ UNCHANGED <<inbound, peer_closed, rwait, polled, kindVars, lsnVars, addrVars,
                   bindVars, splitVars>>

\* The socket's send buffer has room again.
SendBufferDrains ==
    /\ fd_open /\ ~wready
    /\ wready' = TRUE
    /\ UNCHANGED <<inbound, peer_closed, rwait, polled, kindVars, lsnVars, addrVars,
                   bindVars, splitVars>>

\* Stream::poll_read_ready: TRUE stands for Poll::Ready(Ok(())), FALSE for
\* Poll::Pending.
poll_read_ready(kind) ==
    IF kind = "Tcp" THEN read_ready
    ELSE write_ready

\* Stream::poll_write_ready
poll_write_ready(kind) ==
    IF kind = "Tcp" THEN write_ready
    ELSE write_ready

PollReadReady ==
    /\ stream = "live"
    /\ polled' = [fn |-> "poll_read_ready", ready |-> poll_read_ready(skind),
                  r |-> read_ready, w |-> write_ready]
    /\ UNCHANGED <<inbound, peer_closed, wready, rwait, kindVars, lsnVars, addrVars,
                   bindVars, splitVars>>

PollWriteReady ==
    /\ stream = "live"
    /\ polled' = [fn |-> "poll_write_ready", ready |-> poll_write_ready(skind),
                  r |-> read_ready, w |-> write_ready]
    /\ UNCHANGED <<inbound, peer_closed, wready, rwait, kindVars, lsnVars, addrVars,
                   bindVars, splitVars>>

NextReady ==
    \/ PeerSends
    \/ PeerCloses
    \/ SendBufferFills
    \/ SendBufferDrains
    \/ StreamTryRead
    \/ ReadableStart
    \/ ReadableComplete
    \/ ReadableCancel
    \/ PollReadReady
    \/ PollWriteReady
    \/ StreamDrop

SpecReady == InitReady /\ [][NextReady]_vars

\* C13: Stream::poll_read_ready reports the socket's read readiness and
\* Stream::poll_write_ready its write readiness, for both kinds: each
\* returns Ready exactly when the socket is ready in that direction, so
\* poll_read_ready is never Ready with nothing to read and always agrees
\* with readable(), which completes exactly when the socket is readable.
C13_SameNamedReadiness ==
    /\ polled.fn = "poll_read_ready" => polled.ready = polled.r
    /\ polled.fn = "poll_write_ready" => polled.ready = polled.w

====
